---------------------------- MODULE Spec2Model ----------------------------
(***************************************************************************)
(* Model of the LayerZero OFT MCP server: the two tool handlers            *)
(* deploy-and-configure-oft-multichain and bridge-oft (index.ts) and the   *)
(* helpers of utils.ts.  One invocation of a handler is a process whose    *)
(* steps are the stretches of code between two awaited chain interactions. *)
(* The chains, the RPC endpoints and the files read are the environment:   *)
(* every awaited call either resolves or rejects.                          *)
(***************************************************************************)
EXTENDS Integers, Sequences, FiniteSets, TLC

(***************************************************************************)
(* Bounds of the model.                                                    *)
(***************************************************************************)
NumNetworks == 3
MaxTargets == 3
MaxAmountLen == 3

(***************************************************************************)
(* Text.  A string is a sequence of one-character strings.                 *)
(***************************************************************************)
Digits == {"0", "1", "2", "3", "4", "5", "6", "7", "8", "9"}

DigitValue(ch) ==
    CASE ch = "0" -> 0 [] ch = "1" -> 1 [] ch = "2" -> 2 [] ch = "3" -> 3
      [] ch = "4" -> 4 [] ch = "5" -> 5 [] ch = "6" -> 6 [] ch = "7" -> 7
      [] ch = "8" -> 8 [] ch = "9" -> 9

AllDigits(s) == \A k \in 1..Len(s) : s[k] \in Digits

AllZeros(s) == \A k \in 1..Len(s) : s[k] = "0"

Zeros(n) == [k \in 1..n |-> "0"]

\* String.prototype.includes
Includes(s, needle) ==
    \E k \in 0..(Len(s) - Len(needle)) :
        \A j \in 1..Len(needle) : s[k + j] = needle[j]

FAILURE == <<"F", "A", "I", "L", "U", "R", "E">>

(***************************************************************************)
(* BigInt values are kept in decimal: a sign and the digits without        *)
(* leading zeros (<<"0">> for zero), since 10^18 does not fit a machine    *)
(* integer of the checker.                                                 *)
(***************************************************************************)
RECURSIVE StripLeadingZeros(_)
StripLeadingZeros(s) ==
    IF Len(s) > 1 /\ s[1] = "0" THEN StripLeadingZeros(Tail(s)) ELSE s

\* BigInt(sign + digits)
BigIntOf(neg, digits) ==
    LET d == StripLeadingZeros(digits)
    IN  [neg |-> neg /\ d # <<"0">>, digits |-> d]

(***************************************************************************)
(* ethers' parseUnits(value, decimals) = FixedNumber.fromString(value,     *)
(* {decimals, width: 512}).value.  The value must be an optional minus,    *)
(* digits, an optional dot and digits, with at least one digit; the        *)
(* fraction is padded with zeros to `decimals` digits, and digits beyond   *)
(* `decimals` must all be zero.  The result is a record: ok says whether   *)
(* the call returned, value is the BigInt.                                 *)
(***************************************************************************)
ParseSign(s) == Len(s) > 0 /\ s[1] = "-"

ParseBody(s) == IF ParseSign(s) THEN Tail(s) ELSE s

\* Index of the first "." of s, or Len(s) + 1.
RECURSIVE DotIndex(_, _)
DotIndex(s, k) ==
    IF k > Len(s) \/ s[k] = "." THEN k ELSE DotIndex(s, k + 1)

ParseWhole(s) == SubSeq(ParseBody(s), 1, DotIndex(ParseBody(s), 1) - 1)

ParseFraction(s) ==
    SubSeq(ParseBody(s), DotIndex(ParseBody(s), 1) + 1, Len(ParseBody(s)))

ParseMatches(s) ==
    /\ AllDigits(ParseWhole(s))
    /\ AllDigits(ParseFraction(s))
    /\ Len(ParseWhole(s)) + Len(ParseFraction(s)) > 0

ParseThrow == [ok |-> FALSE, value |-> BigIntOf(FALSE, <<"0">>)]

\* parseUnits that does not scale by 10^decimals.
parseUnitsUnscaled(value, decimals) ==
    IF ~ParseMatches(value) \/ ~AllZeros(ParseFraction(value)) THEN ParseThrow
    ELSE [ok |-> TRUE,
          value |-> BigIntOf(ParseSign(value),
                             IF ParseWhole(value) = <<>> THEN <<"0">>
                             ELSE ParseWhole(value))]

parseUnits(value, decimals) ==
    IF ~ParseMatches(value) THEN ParseThrow
    ELSE LET whole == IF ParseWhole(value) = <<>> THEN <<"0">>
                      ELSE ParseWhole(value)
             frac == ParseFraction(value)
             padded == IF Len(frac) < decimals
                       THEN frac \o Zeros(decimals - Len(frac))
                       ELSE frac
         IN  IF ~AllZeros(SubSeq(padded, decimals + 1, Len(padded)))
             THEN ParseThrow
             ELSE [ok |-> TRUE,
                   value |-> BigIntOf(ParseSign(value),
                                      whole \o SubSeq(padded, 1, decimals))]

(***************************************************************************)
(* Hex data.  A string handed to ethers as BytesLike is either not a hex   *)
(* string (hex = FALSE) or a sequence of bytes.                            *)
(***************************************************************************)
HexData(bytes) == [hex |-> TRUE, bytes |-> bytes]

NotHex == [hex |-> FALSE, bytes |-> <<>>]

\* A 20-byte account address whose last byte is n.
Address(n) == HexData([k \in 1..20 |-> IF k = 20 THEN n ELSE 170])

PadThrow == [ok |-> FALSE, value |-> HexData(<<>>)]

\* ethers' zeroPadValue(data, length): left-pads with zero bytes; throws when
\* the data is not BytesLike or is longer than length.
zeroPadValue(data, length) ==
    IF ~data.hex \/ Len(data.bytes) > length THEN PadThrow
    ELSE [ok |-> TRUE,
          value |-> HexData([k \in 1..(length - Len(data.bytes)) |-> 0]
                            \o data.bytes)]

\* A padding on the wrong side: zero bytes after the data.
formatAddressRightPadded(address) ==
    IF ~address.hex \/ Len(address.bytes) > 32 THEN PadThrow
    ELSE [ok |-> TRUE,
          value |-> HexData(address.bytes
                            \o [k \in 1..(32 - Len(address.bytes)) |-> 0])]

formatAddressForLayerZero(address) == zeroPadValue(address, 32)


(***************************************************************************)
(* Configuration (utils.ts).  The networks of NETWORKS are numbered        *)
(* 1..NumNetworks; every entry has its own EID and, as in the source, the  *)
(* same LayerZero endpoint address.                                        *)
(***************************************************************************)
Networks == 1..NumNetworks

NETWORKS == [c \in Networks |-> [name |-> c, lzEid |-> 40230 + c,
                                 lzEndpoint |-> Address(110)]]

getNetworkConfig(networkName) == NETWORKS[networkName]

\* process.env.OWNER_ADDRESS, checked to be set when the module is loaded.
envOwnerAddress == Address(1)

\* A FACTORY_ADDRESSES entry: 0 when the environment variable is not set,
\* else the address of the CREATE2 factory.
FactoryUndefined == 0
FactoryAddress == 1
FactoryAddressB == 2

(***************************************************************************)
(* The requests.                                                           *)
(***************************************************************************)
GMA == <<"G", "M", "A">>

TokenTexts == {GMA, FAILURE}

\* Token names and symbols are any strings: two pairs of them with the
\* character ":" at the end of the name or at the start of the symbol.
ColonPairs == {<<<<"G", ":">>, <<"A">>>>, <<<<"G">>, <<":", "A">>>>}

\* The (tokenName, tokenSymbol) pairs of the requests.
TokenPairs == (TokenTexts \X TokenTexts) \cup ColonPairs

SupplySamples == {<<"1", "0">>, <<"1", ".", "5">>, <<"-", "1">>}

\* The supplies of the requests that run side by side.
ConcurrentSupplies == {<<"1", "0">>, <<"2", "0">>}

\* params.owner: absent, a valid address, or a string that is no address.
NoOwner == [given |-> FALSE, value |-> NotHex]
OwnerSamples == {NoOwner, [given |-> TRUE, value |-> Address(2)],
                 [given |-> TRUE, value |-> NotHex]}

RECURSIVE SeqsUpTo(_, _)
SeqsUpTo(S, n) ==
    IF n = 0 THEN {<<>>}
    ELSE LET shorter == SeqsUpTo(S, n - 1)
         IN  shorter \cup {Append(q, x) : q \in shorter, x \in S}

\* params.decimals: an integer of 0..18, 18 when it is not given.
DecimalsSamples == {0, 18}

DeployRequests ==
    [tokenName : TokenTexts, tokenSymbol : TokenTexts,
     initialTotalSupply : SupplySamples, decimals : DecimalsSamples,
     targetChains : SeqsUpTo(Networks, MaxTargets), owner : OwnerSamples]

\* process.env.PRIVATE_KEY is set (the module throws when it is loaded
\* without it) to the hex of a private key or to some other text.
PrivateKeys == {"valid", "invalid"}

\* FACTORY_ADDRESSES as the environment sets it: a network has the factory
\* address or none; or all have one and the first network a different one.
FactoryAddressMaps ==
    [Networks -> {FactoryUndefined, FactoryAddress}]
        \cup {[c \in Networks |-> IF c = 1 THEN FactoryAddressB
                                  ELSE FactoryAddress]}

\* What readFile + JSON.parse of an artifact file gives.
OftFileStates == {"ok", "unreadable", "malformed", "placeholder"}
FactoryFileStates == {"ok", "unreadable"}

VARIABLES
    tool,                      \* the handler invoked: "deploy" or "bridge"
    params,                    \* the request
    PRIVATE_KEY,               \* process.env.PRIVATE_KEY: "valid" or "invalid"
    FACTORY_ADDRESSES,         \* network -> factory address or FactoryUndefined
    oftFile, factoryFile,      \* the artifact files as read ("unread" before)
    pc,                        \* the handler's position
    i,                         \* deployment loop: index in targetChains
    peerIndex,                 \* peering loops: index of the pair (A, B)
    optIndex,                  \* enforced-options loop: index of the contract
    results, deployedContractsSummary, deployedContractsData,
    peeringResults, enforcedOptionsResults,
    response,                  \* "none", "success", "error" (isError: true) or
                               \* "threw" (the handler's promise rejected)
    overallStatus,             \* of the report returned, "" before
    txs,                       \* the chain interactions issued, in order
    contracts,                 \* on chain: <<network, address>> of the contracts
    lastDeployedAddress,       \* on chain: the factory's lastDeployedAddress
    peersOnChain,              \* on chain: the setPeer calls confirmed
    optionsOnChain,            \* on chain: the setEnforcedOptions calls confirmed
    sendParam, nativeFee,      \* bridge-oft: the locals of the handler
    suspended,                 \* the invocation that waits while this one runs
    sequential                 \* the second request came after the first returned

vars == <<tool, params, PRIVATE_KEY, FACTORY_ADDRESSES, oftFile, factoryFile, pc, i, peerIndex,
          optIndex,
          results, deployedContractsSummary, deployedContractsData,
          peeringResults, enforcedOptionsResults, response, overallStatus,
          txs, contracts, lastDeployedAddress, peersOnChain, optionsOnChain,
          sendParam, nativeFee, suspended, sequential>>

bridgeLocals == <<sendParam, nativeFee>>
chainState == <<contracts, lastDeployedAddress, peersOnChain, optionsOnChain>>
environment == <<tool, params, PRIVATE_KEY, FACTORY_ADDRESSES, suspended,
                 sequential>>

(***************************************************************************)
(* A log line: the template of the line and the request's texts it embeds. *)
(***************************************************************************)
Line(tpl, text) == [tpl |-> tpl, text |-> text]

\* The templates whose fixed text holds the word FAILURE.
FailureTemplates == {"  FAILURE: Deploying on {chainName}: {error}, salt: {salt}, bytecode: {bytecode}",
                     "{logPrefix} FAILURE: {error}"}

\* r.includes("FAILURE")
LineIncludesFAILURE(r) ==
    \/ r.tpl \in FailureTemplates
    \/ \E k \in 1..Len(r.text) : Includes(r.text[k], FAILURE)

NoSendParam == [dstEid |-> 0]

Tx(op, chain, status, args) ==
    [op |-> op, chain |-> chain, status |-> status, args |-> args]

\* A wait that leaves the transaction as it was sent.
NotAwaited(q, field, value) == q

\* await tx.wait(): the last transaction sent gets its outcome.
SetLast(q, field, value) == [q EXCEPT ![Len(q)][field] = value]

\* No invocation waits.
NoInvocation == [pc |-> "none"]

\* The locals of a handler at its entry.
InitLocals ==
    /\ i = 0 /\ peerIndex = 0 /\ optIndex = 0
    /\ results = <<>>
    /\ deployedContractsSummary = <<>>
    /\ deployedContractsData = <<>>
    /\ peeringResults = <<>>
    /\ enforcedOptionsResults = <<>>
    /\ response = "none"
    /\ overallStatus = ""
    /\ txs = <<>>
    /\ sendParam = NoSendParam
    /\ nativeFee = 0

InitCommon ==
    /\ PRIVATE_KEY \in PrivateKeys
    /\ suspended = NoInvocation
    /\ sequential = FALSE
    /\ oftFile = "unread"
    /\ factoryFile = "unread"
    /\ InitLocals
    /\ contracts = {}
    /\ lastDeployedAddress = [c \in Networks |-> Address(0)]
    /\ peersOnChain = {}
    /\ optionsOnChain = {}

(***************************************************************************)
(* deploy-and-configure-oft-multichain.                                    *)
(***************************************************************************)
deployOwner == IF params.owner.given THEN params.owner.value
               ELSE envOwnerAddress

\* An address argument of the ABI coder: 20 bytes of hex.
IsAddress(x) == x.hex /\ Len(x.bytes) = 20

\* new ethers.Interface(OFT_ABI).encodeDeploy([name, symbol, supply, endpoint,
\* owner]) returns: the supply is a uint256 and the owner an address.
EncodeDeployOk(supply, owner) == ~supply.neg /\ IsAddress(owner)

\* The chain of the running iteration of the deployment loop.
chainName == params.targetChains[i]

\* ethers.keccak256: a digest stands for its preimage, no two preimages
\* have the same digest.
keccak256(data) == [keccak256 |-> data]

\* ethers.parseUnits(params.initialTotalSupply, 0) with the decimals of the
\* request.
parsedSupplyScaled == parseUnits(params.initialTotalSupply, params.decimals)

parsedSupply == parseUnits(params.initialTotalSupply, 0)

\* A salt made of the token name and the chain.
saltOfNameAndChain == keccak256(<<params.tokenName, chainName>>)

\* keccak256(toUtf8Bytes(`${tokenName}:${tokenSymbol}`))
salt == keccak256(params.tokenName \o <<":">> \o params.tokenSymbol)

\* The constructor arguments as encodeDeploy lays them out.
EncodeDeploy(tokenName, tokenSymbol, supply, lzEndpoint, owner) ==
    <<tokenName, tokenSymbol, supply, lzEndpoint, owner>>

constructorArgs ==
    EncodeDeploy(params.tokenName, params.tokenSymbol, parsedSupply.value,
                 getNetworkConfig(chainName).lzEndpoint,
                 deployOwner)

\* solidityPacked(["bytes", "bytes"], [OFT_BYTECODE, constructorArgs])
SolidityPacked(bytecode, args) == [bytecode |-> bytecode, args |-> args]

bytecodeWithArgs == SolidityPacked("OFT_BYTECODE", constructorArgs)

\* The CREATE2 factory.  The address of the contract it creates is the last
\* 20 bytes of keccak256(0xff, factory, salt, keccak256(init code)); the
\* factory fails when a contract exists at that address.  Create2Inputs are
\* the inputs the requests of the model can make, and the digest of an input
\* is written as its rank among them.
Create2Digest(factory, saltGiven, bytecode) ==
    keccak256(<<"0xff", factory, saltGiven, keccak256(bytecode)>>)

Create2Inputs ==
    {Create2Digest(f,
                   keccak256(t[1] \o <<":">> \o t[2]),
                   SolidityPacked("OFT_BYTECODE",
                                  EncodeDeploy(t[1], t[2], parseUnits(v, 0).value, e, o))) :
        f \in {FactoryAddress, FactoryAddressB},
        t \in TokenPairs,
        v \in {x \in SupplySamples \cup ConcurrentSupplies : parseUnits(x, 0).ok},
        e \in {NETWORKS[c].lzEndpoint : c \in Networks},
        o \in {w \in {envOwnerAddress} \cup {x.value : x \in OwnerSamples} :
                    IsAddress(w)}}

RECURSIVE SeqOfSet(_)
SeqOfSet(S) ==
    IF S = {} THEN <<>>
    ELSE LET x == CHOOSE x \in S : TRUE
         IN  <<x>> \o SeqOfSet(S \ {x})

Create2Ranks == SeqOfSet(Create2Inputs)

Create2Address(factory, saltGiven, bytecode) ==
    LET digest == Create2Digest(factory, saltGiven, bytecode)
        ranks == {k \in 1..Len(Create2Ranks) : Create2Ranks[k] = digest}
    IN  Address(IF ranks = {} THEN 10 ELSE 10 + CHOOSE k \in ranks : TRUE)

\* The placeholder test of Phase A.
ArtifactRejected(file) == file = "placeholder"

\* A read whose failure goes unnoticed.
ArtifactLoadedAlways(file) == TRUE

\* Whether readFile + JSON.parse of an artifact gave the artifact.
ArtifactLoaded(file) == file \notin {"unreadable", "malformed"}

\* An error result after which the handler runs again.
ReturnErrorAndRetry ==
    /\ response' = "error"
    /\ pc' = IF tool = "bridge" THEN "Bridge" ELSE "done"

\* A catch block without a return: the handler goes on to its report.
ReportAnyway ==
    /\ response' = response
    /\ pc' = "PhaseE"

\* return {content, isError: true}
ReturnError ==
    /\ response' = "error"
    /\ pc' = "done"

Throw ==
    /\ response' = "threw"
    /\ pc' = "done"

PhaseALog == <<Line("Phase A: Initial Checks & Setup started.", <<>>),
               Line("OWNER_ADDRESS found: {envOwnerAddress}", <<>>)>>

\* Phase A.  process.env.OWNER_ADDRESS is set: the module throws when it is
\* loaded without it, so the handler's own test of it never fails.
PhaseA ==
    /\ tool = "deploy"
    /\ pc = "PhaseA"
    /\ \E file \in (IF oftFile = "unread" THEN OftFileStates ELSE {oftFile}) :
         /\ oftFile' = file
         /\ IF ~ArtifactLoaded(file)
            THEN \* line 289 is outside every try block
                 /\ results' = PhaseALog
                 /\ Throw
                 /\ i' = i
            ELSE IF ArtifactRejected(file)
            THEN /\ results' = Append(PhaseALog,
                        Line("Error: OFT_ABI or OFT_BYTECODE are placeholders.", <<>>))
                 /\ ReturnError
                 /\ i' = i
            ELSE IF Len(params.targetChains) = 0
            THEN /\ results' = PhaseALog \o
                        <<Line("OFT_ABI and OFT_BYTECODE are not placeholders.", <<>>),
                          Line("Error: targetChains array is empty.", <<>>)>>
                 /\ ReturnError
                 /\ i' = i
            ELSE /\ results' = PhaseALog \o
                        <<Line("OFT_ABI and OFT_BYTECODE are not placeholders.", <<>>),
                          Line("Target chains for deployment: {targetChains}", <<>>),
                          Line("Initialization complete.", <<>>),
                          Line("Phase B: Deployment Phase started.", <<>>),
                          Line("Deployment owner set to: {deployOwner}", <<>>)>>
                 /\ pc' = "Deploy"
                 /\ i' = 1
                 /\ response' = response
    /\ UNCHANGED <<environment, factoryFile, peerIndex, optIndex,
                   deployedContractsSummary, deployedContractsData,
                   peeringResults, enforcedOptionsResults, overallStatus, txs,
                   chainState, bridgeLocals>>

\* getSigner(networkName) returns a wallet: new Wallet(PRIVATE_KEY, provider)
\* throws when the key is no private key.  The provider is not contacted.
getSigner(networkName) == [ok |-> PRIVATE_KEY = "valid", address |-> Address(5)]

\* The catch block of the deployment loop encodes the constructor arguments
\* again, outside any try block, before it builds the error message.
CatchThrows ==
    \/ ~parseUnits(params.initialTotalSupply, 0).ok
    \/ ~EncodeDeployOk(parseUnits(params.initialTotalSupply, 0).value,
                       deployOwner)

\* The catch block of the deployment loop, entered with the log newResults.
DeployCatch(newResults) ==
    IF CatchThrows
    THEN /\ results' = newResults
         /\ deployedContractsSummary' = deployedContractsSummary
         /\ Throw
    ELSE /\ results' = Append(newResults,
                Line("  FAILURE: Deploying on {chainName}: {error}, salt: {salt}, bytecode: {bytecode}", <<>>))
         /\ deployedContractsSummary' = Append(deployedContractsSummary,
                [chainName |-> chainName, contractAddress |-> "null",
                 deploymentStatus |-> "Failed"])
         /\ ReturnError

AttemptLog == <<Line("Attempting deployment on {chainName}...", <<>>),
                Line("  Signer and network config obtained for {chainName}.", <<>>)>>

TokenLog == Line("  Token: {tokenName} ({tokenSymbol}), Supply: {initialTotalSupply} (parsed: {parsedSupply}), Decimals: {decimals}",
                 <<params.tokenName, params.tokenSymbol,
                   params.initialTotalSupply>>)

\* A factory that creates a contract again where one exists.
AddressTakenNever(chain, address) == FALSE

\* The factory cannot create a contract at an address where one exists.
AddressTaken(chain, address) == <<chain, address>> \in contracts

\* The body of the try block up to the await of factory.deploy.
Deploy ==
    /\ tool = "deploy"
    /\ pc = "Deploy"
    /\ LET factoryAddress == FACTORY_ADDRESSES[chainName]
       IN  IF ~getSigner(chainName).ok
           THEN /\ DeployCatch(Append(results, AttemptLog[1]))
                /\ UNCHANGED <<factoryFile, txs>>
           ELSE IF ~parsedSupply.ok
           THEN /\ DeployCatch(results \o AttemptLog)
                /\ UNCHANGED <<factoryFile, txs>>
           ELSE IF factoryAddress = FactoryUndefined
           THEN /\ DeployCatch(results \o AttemptLog \o <<TokenLog>>)
                /\ UNCHANGED <<factoryFile, txs>>
           ELSE \E file \in (IF factoryFile = "unread" THEN FactoryFileStates
                             ELSE {factoryFile}) :
                  /\ factoryFile' = file
                  /\ IF ~ArtifactLoaded(file)
                     THEN /\ DeployCatch(results \o AttemptLog \o <<TokenLog>>)
                          /\ txs' = txs
                     ELSE IF ~EncodeDeployOk(parsedSupply.value, deployOwner)
                     THEN /\ DeployCatch(results \o AttemptLog \o
                                <<TokenLog, Line("  Contract factory created.", <<>>)>>)
                          /\ txs' = txs
                     ELSE \E sent \in BOOLEAN :
                            LET log == results \o AttemptLog \o
                                  <<TokenLog,
                                    Line("  Contract factory created.", <<>>),
                                    Line("  Deploying with CREATE2 on {chainName} using salt: {salt}", <<>>)>>
                            IN  IF sent
                                THEN /\ txs' = Append(txs, Tx("deploy", chainName, "pending",
                                                [factory |-> factoryAddress,
                                                 bytecode |-> bytecodeWithArgs,
                                                 salt |-> salt]))
                                     /\ results' = log
                                     /\ pc' = "DeployWait"
                                     /\ UNCHANGED <<response, deployedContractsSummary>>
                                ELSE /\ txs' = Append(txs, Tx("deploy", chainName, "failed",
                                                [factory |-> factoryAddress,
                                                 bytecode |-> bytecodeWithArgs,
                                                 salt |-> salt]))
                                     /\ DeployCatch(log)
    /\ UNCHANGED <<environment, oftFile, i, peerIndex, optIndex,
                   deployedContractsData, peeringResults,
                   enforcedOptionsResults, overallStatus, chainState,
                   bridgeLocals>>

\* await tx.wait() of the deployment.  The factory reverts when the address
\* is taken (README: the same token cannot be created twice by one factory).
DeployWait ==
    /\ tool = "deploy"
    /\ pc = "DeployWait"
    /\ LET tx == txs[Len(txs)]
           address == Create2Address(tx.args.factory, tx.args.salt,
                                     tx.args.bytecode)
       IN  \E mined \in BOOLEAN :
             IF mined /\ ~AddressTaken(chainName, address)
             THEN /\ txs' = SetLast(txs, "status", "confirmed")
                  /\ contracts' = contracts \cup {<<chainName, address>>}
                  /\ lastDeployedAddress' =
                        [lastDeployedAddress EXCEPT ![chainName] = address]
                  /\ pc' = "DeployRead"
                  /\ UNCHANGED <<results, response, deployedContractsSummary>>
             ELSE /\ txs' = SetLast(txs, "status", "failed")
                  /\ DeployCatch(results)
                  /\ UNCHANGED <<contracts, lastDeployedAddress>>
    /\ UNCHANGED <<environment, oftFile, factoryFile, i, peerIndex, optIndex,
                   deployedContractsData, peeringResults,
                   enforcedOptionsResults, overallStatus, peersOnChain,
                   optionsOnChain, bridgeLocals>>

\* A deployment loop that stops one chain early.
AfterDeploymentEarly ==
    IF i < Len(params.targetChains) - 1 THEN "Deploy" ELSE "PhaseC"

\* Where the handler goes after the deployment on targetChains[i] succeeded.
AfterDeployment == IF i < Len(params.targetChains) THEN "Deploy" ELSE "PhaseC"

\* await factory.lastDeployedAddress() and the rest of the try block.
DeployRead ==
    /\ tool = "deploy"
    /\ pc = "DeployRead"
    /\ \E returned \in BOOLEAN :
         IF returned
         THEN LET computedAddress == lastDeployedAddress[chainName]
              IN  /\ txs' = Append(txs, Tx("lastDeployedAddress", chainName,
                                           "returned", <<>>))
                  /\ results' = Append(results,
                        Line("  SUCCESS: Deployed via CREATE2 at computed address: {computedAddress}", <<>>))
                  /\ deployedContractsData' = Append(deployedContractsData,
                        [chainName |-> chainName, address |-> computedAddress,
                         lzEid |-> getNetworkConfig(chainName).lzEid])
                  /\ deployedContractsSummary' = Append(deployedContractsSummary,
                        [chainName |-> chainName,
                         contractAddress |-> computedAddress,
                         deploymentStatus |-> "Success"])
                  /\ pc' = AfterDeployment
                  /\ i' = IF AfterDeployment = "Deploy" THEN i + 1 ELSE i
                  /\ response' = response
         ELSE /\ txs' = Append(txs, Tx("lastDeployedAddress", chainName,
                                       "failed", <<>>))
              /\ DeployCatch(results)
              /\ UNCHANGED <<deployedContractsData, i>>
    /\ UNCHANGED <<environment, oftFile, factoryFile, peerIndex, optIndex,
                   peeringResults, enforcedOptionsResults, overallStatus,
                   chainState, bridgeLocals>>


(***************************************************************************)
(* Phase C: peering.                                                       *)
(***************************************************************************)
\* <<A, B>> for the two nested loops over deployedContractsData, in order.
AllPairs(n) == [m \in 1..(n * n) |-> <<((m - 1) \div n) + 1, ((m - 1) % n) + 1>>]

\* Peering in one direction only.
PeeringPairsOneWay(data) ==
    SelectSeq(AllPairs(Len(data)), LAMBDA pr : pr[1] < pr[2])

\* The pairs the loops reach the try block with (the others `continue`).
PeeringPairs(data) ==
    SelectSeq(AllPairs(Len(data)),
              LAMBDA pr : data[pr[1]].chainName # data[pr[2]].chainName)

\* A skip test that lets a single contract through.
PeeringSkippedIfNone(data) == Len(data) < 1

\* The test that skips the peering phase.
PeeringSkipped(data) == Len(data) < 2

contractAData == deployedContractsData[PeeringPairs(deployedContractsData)[peerIndex][1]]
contractBData == deployedContractsData[PeeringPairs(deployedContractsData)[peerIndex][2]]

PhaseCLog == <<Line("Deployment Phase completed.", <<>>),
               Line("Phase C: Peering Phase started.", <<>>)>>

SkipPeeringMsg ==
    Line("Skipping peering phase: Less than 2 contracts successfully deployed.", <<>>)

PhaseC ==
    /\ tool = "deploy"
    /\ pc = "PhaseC"
    /\ IF PeeringSkipped(deployedContractsData)
       THEN /\ results' = results \o PhaseCLog \o
                    <<SkipPeeringMsg, Line("Peering Phase completed.", <<>>)>>
            /\ peeringResults' = <<SkipPeeringMsg>>
            /\ pc' = "PhaseD"
            /\ peerIndex' = peerIndex
       ELSE /\ results' = results \o PhaseCLog \o
                    <<Line("Found {n} successfully deployed contracts for peering.", <<>>)>>
            /\ peeringResults' = <<>>
            /\ IF Len(PeeringPairs(deployedContractsData)) > 0
               THEN pc' = "SetPeer" /\ peerIndex' = 1
               ELSE pc' = "PhaseD" /\ peerIndex' = peerIndex
    /\ UNCHANGED <<environment, oftFile, factoryFile, i, optIndex,
                   deployedContractsSummary, deployedContractsData,
                   enforcedOptionsResults, response, overallStatus, txs,
                   chainState, bridgeLocals>>

\* A catch block that logs the failure and goes on with the next pair.
PeerCatchContinue(newPeeringResults) ==
    /\ results' = Append(results, Line("{logPrefix} FAILURE: {error}", <<>>))
    /\ peeringResults' = Append(newPeeringResults,
                                Line("{logPrefix} FAILURE: {error}", <<>>))
    /\ response' = response
    /\ pc' = IF peerIndex = Len(PeeringPairs(deployedContractsData))
             THEN "PhaseD" ELSE "SetPeer"
    /\ peerIndex' = IF peerIndex = Len(PeeringPairs(deployedContractsData))
                    THEN peerIndex ELSE peerIndex + 1

\* The catch block of the peering loops.
PeerCatch(newPeeringResults) ==
    /\ results' = Append(results, Line("{logPrefix} FAILURE: {error}", <<>>))
    /\ peeringResults' = Append(newPeeringResults,
                                Line("{logPrefix} FAILURE: {error}", <<>>))
    /\ ReturnError
    /\ peerIndex' = peerIndex

\* The try block of the peering loops up to the await of setPeer.
SetPeer ==
    /\ tool = "deploy"
    /\ pc = "SetPeer"
    /\ LET peerAddressBytes32 == formatAddressForLayerZero(contractBData.address)
       IN  IF ~peerAddressBytes32.ok
           THEN /\ PeerCatch(peeringResults)
                /\ txs' = txs
           ELSE \E sent \in BOOLEAN :
                  LET log == Append(peeringResults,
                        Line("{logPrefix} Formatting peer address {address} to {peerAddressBytes32}", <<>>))
                      args == [contract |-> contractAData.address,
                               eid |-> contractBData.lzEid,
                               peer |-> peerAddressBytes32.value]
                  IN  IF sent
                      THEN /\ txs' = Append(txs, Tx("setPeer", contractAData.chainName,
                                                    "pending", args))
                           /\ peeringResults' = Append(log,
                                Line("{logPrefix} setPeer transaction sent. Waiting for confirmation...", <<>>))
                           /\ pc' = "SetPeerWait"
                           /\ UNCHANGED <<results, response, peerIndex>>
                      ELSE /\ txs' = Append(txs, Tx("setPeer", contractAData.chainName,
                                                    "failed", args))
                           /\ PeerCatch(log)
    /\ UNCHANGED <<environment, oftFile, factoryFile, i, optIndex,
                   deployedContractsSummary, deployedContractsData,
                   enforcedOptionsResults, overallStatus, chainState,
                   bridgeLocals>>

\* await tx.wait() of setPeer, and the step of the loops.
SetPeerWait ==
    /\ tool = "deploy"
    /\ pc = "SetPeerWait"
    /\ \E mined \in BOOLEAN :
         IF mined
         THEN LET last == peerIndex = Len(PeeringPairs(deployedContractsData))
              IN  /\ txs' = SetLast(txs, "status", "confirmed")
                  /\ peersOnChain' = peersOnChain \cup
                        {<<txs[Len(txs)].chain, txs[Len(txs)].args>>}
                  /\ results' = Append(results, Line("{logPrefix} SUCCESS.", <<>>)) \o
                        (IF last THEN <<Line("Peering Phase completed.", <<>>)>>
                         ELSE <<>>)
                  /\ peeringResults' = Append(peeringResults,
                                              Line("{logPrefix} SUCCESS.", <<>>))
                  /\ pc' = IF last THEN "PhaseD" ELSE "SetPeer"
                  /\ peerIndex' = IF last THEN peerIndex ELSE peerIndex + 1
                  /\ response' = response
         ELSE /\ txs' = SetLast(txs, "status", "failed")
              /\ PeerCatch(peeringResults)
              /\ peersOnChain' = peersOnChain
    /\ UNCHANGED <<environment, oftFile, factoryFile, i, optIndex,
                   deployedContractsSummary, deployedContractsData,
                   enforcedOptionsResults, overallStatus, contracts,
                   lastDeployedAddress, optionsOnChain, bridgeLocals>>

(***************************************************************************)
(* Phase D: enforced options.                                              *)
(***************************************************************************)
standardOptionsHex == "0x00030100110100000000000000000000000000030d40"

\* optionsToSet of the contract at index k of data.
OptionsToSet(data, k) ==
    LET others == SelectSeq(data, LAMBDA d : d.chainName # data[k].chainName)
    IN  [m \in 1..Len(others) |->
            [eid |-> others[m].lzEid, msgType |-> 1,
             options |-> standardOptionsHex]]

contractData == deployedContractsData[optIndex]

PhaseD ==
    /\ tool = "deploy"
    /\ pc = "PhaseD"
    /\ results' = results \o
            <<Line("Phase D: Enforced Options Phase started.", <<>>),
              Line("Standard options hex for enforced options: {standardOptionsHex}", <<>>)>>
            \o (IF Len(deployedContractsData) = 0
                THEN <<Line("Skipping enforced options phase: No contracts successfully deployed.", <<>>),
                       Line("Enforced Options Phase completed.", <<>>)>>
                ELSE <<>>)
    /\ enforcedOptionsResults' =
            IF Len(deployedContractsData) = 0
            THEN <<Line("Skipping enforced options phase: No contracts successfully deployed.", <<>>)>>
            ELSE <<>>
    /\ pc' = IF Len(deployedContractsData) = 0 THEN "PhaseE"
             ELSE "SetEnforcedOptions"
    /\ optIndex' = IF Len(deployedContractsData) = 0 THEN optIndex ELSE 1
    /\ UNCHANGED <<environment, oftFile, factoryFile, i, peerIndex,
                   deployedContractsSummary, deployedContractsData,
                   peeringResults, response, overallStatus, txs, chainState,
                   bridgeLocals>>

\* The catch block of the enforced-options loop.
OptionsCatch(newOptionsResults) ==
    /\ results' = Append(results, Line("{logPrefix} FAILURE: {error}", <<>>))
    /\ enforcedOptionsResults' = Append(newOptionsResults,
                                        Line("{logPrefix} FAILURE: {error}", <<>>))
    /\ ReturnError
    /\ optIndex' = optIndex

\* The step of the enforced-options loop after the contract at optIndex.
OptionsNext ==
    LET last == optIndex = Len(deployedContractsData)
    IN  /\ pc' = IF last THEN "PhaseE" ELSE "SetEnforcedOptions"
        /\ optIndex' = IF last THEN optIndex ELSE optIndex + 1

OptionsDoneLog ==
    IF optIndex = Len(deployedContractsData)
    THEN <<Line("Enforced Options Phase completed.", <<>>)>>
    ELSE <<>>

\* The try block of the enforced-options loop up to the await of
\* setEnforcedOptions, or all of it when there is no peer.
SetEnforcedOptions ==
    /\ tool = "deploy"
    /\ pc = "SetEnforcedOptions"
    /\ LET optionsToSet == OptionsToSet(deployedContractsData, optIndex)
       IN  IF Len(optionsToSet) > 0
           THEN \E sent \in BOOLEAN :
                  LET log == Append(enforcedOptionsResults,
                        Line("{logPrefix} Preparing to set options for {n} peers: {eids}", <<>>))
                      args == [contract |-> contractData.address,
                               options |-> optionsToSet]
                  IN  IF sent
                      THEN /\ txs' = Append(txs, Tx("setEnforcedOptions",
                                    contractData.chainName, "pending", args))
                           /\ enforcedOptionsResults' = Append(log,
                                Line("{logPrefix} setEnforcedOptions transaction sent. Waiting for confirmation...", <<>>))
                           /\ pc' = "SetEnforcedOptionsWait"
                           /\ UNCHANGED <<results, response, optIndex>>
                      ELSE /\ txs' = Append(txs, Tx("setEnforcedOptions",
                                    contractData.chainName, "failed", args))
                           /\ OptionsCatch(log)
           ELSE /\ results' = Append(results,
                        Line("{logPrefix} No peers to set enforced options for.", <<>>))
                        \o OptionsDoneLog
                /\ enforcedOptionsResults' = Append(enforcedOptionsResults,
                        Line("{logPrefix} No peers to set enforced options for.", <<>>))
                /\ OptionsNext
                /\ UNCHANGED <<txs, response>>
    /\ UNCHANGED <<environment, oftFile, factoryFile, i, peerIndex,
                   deployedContractsSummary, deployedContractsData,
                   peeringResults, overallStatus, chainState, bridgeLocals>>

\* await tx.wait() of setEnforcedOptions, and the step of the loop.
SetEnforcedOptionsWait ==
    /\ tool = "deploy"
    /\ pc = "SetEnforcedOptionsWait"
    /\ \E mined \in BOOLEAN :
         IF mined
         THEN /\ txs' = SetLast(txs, "status", "confirmed")
              /\ optionsOnChain' = optionsOnChain \cup
                    {<<txs[Len(txs)].chain, txs[Len(txs)].args>>}
              /\ results' = Append(results,
                    Line("{logPrefix} SUCCESS: Set enforced options for {n} peers.", <<>>))
                    \o OptionsDoneLog
              /\ enforcedOptionsResults' = Append(enforcedOptionsResults,
                    Line("{logPrefix} SUCCESS: Set enforced options for {n} peers.", <<>>))
              /\ OptionsNext
              /\ response' = response
         ELSE /\ txs' = SetLast(txs, "status", "failed")
              /\ OptionsCatch(enforcedOptionsResults)
              /\ optionsOnChain' = optionsOnChain
    /\ UNCHANGED <<environment, oftFile, factoryFile, i, peerIndex,
                   deployedContractsSummary, deployedContractsData,
                   peeringResults, overallStatus, contracts,
                   lastDeployedAddress, peersOnChain, bridgeLocals>>

(***************************************************************************)
(* Phase E: the report.                                                    *)
(***************************************************************************)
StatusCompleted == "Deployment and configuration process completed."
StatusSomeErrors == "Deployment and configuration process completed. Some errors occurred. Check detailed logs."
StatusAllFailed == "Deployment failed on all target chains."
StatusSuccess == "Successfully deployed and configured on all attempted chains where deployment succeeded."

OverallStatus(summary, log, data) ==
    IF \/ \E k \in 1..Len(summary) : summary[k].deploymentStatus = "Failed"
       \/ \E k \in 1..Len(log) : LineIncludesFAILURE(log[k])
    THEN StatusSomeErrors
    ELSE IF Len(data) = 0 THEN StatusAllFailed
    ELSE StatusSuccess

PhaseE ==
    /\ tool = "deploy"
    /\ pc = "PhaseE"
    /\ LET log == Append(results, Line("Phase E: Preparing results.", <<>>))
           status == OverallStatus(deployedContractsSummary, log,
                                   deployedContractsData)
       IN  /\ overallStatus' = status
           /\ results' = Append(log, Line("Overall Status: {overallStatus}",
                                          <<>>))
    /\ response' = "success"
    /\ pc' = "done"
    /\ UNCHANGED <<environment, oftFile, factoryFile, i, peerIndex, optIndex,
                   deployedContractsSummary, deployedContractsData,
                   peeringResults, enforcedOptionsResults, txs, chainState,
                   bridgeLocals>>

(***************************************************************************)
(* bridge-oft.                                                             *)
(***************************************************************************)
AmountChars == {"0", "5", ".", "-", "x"}

\* params.receiverAddress: an address, an address that begins with zero
\* bytes, shorter hex data, hex data of 33 bytes, or a string that is not
\* hex.
ReceiverSamples == {Address(3),
                    HexData([k \in 1..20 |-> IF k <= 2 THEN 0 ELSE 255]),
                    HexData(<<18, 52, 86, 120>>),
                    HexData([k \in 1..33 |-> 1]), NotHex}

BridgeRequests ==
    [tokenAddress : {Address(4)}, amount : SeqsUpTo(AmountChars, MaxAmountLen),
     fromChain : Networks, toChain : Networks,
     receiverAddress : ReceiverSamples, extraOptions : {"0x"}]

\* await signer.getAddress(): the address of the wallet made of PRIVATE_KEY.
signerAddress == getSigner(params.fromChain).address

\* A messaging fee that also offers the quoted amount in the LZ token.
messagingFeeInLzToken(fee) == [nativeFee |-> fee, lzTokenFee |-> fee]

\* The messaging fee of the send: the quoted native fee, nothing in LZ token.
messagingFee(fee) == [nativeFee |-> fee, lzTokenFee |-> 0]

amountDecimals == 18

\* A handler without the same-chain test.
SameChainNever(fromChain, toChain) == FALSE

\* The test that rejects a transfer to the source chain.
SameChain(fromChain, toChain) == fromChain = toChain

\* The send parameters built from the parsed amount and the padded receiver.
SendParamOf(amountBigInt, formattedReceiverAddress) ==
    [dstEid |-> getNetworkConfig(params.toChain).lzEid,
     to |-> formattedReceiverAddress,
     amountLD |-> amountBigInt,
     minAmountLD |-> amountBigInt,
     extraOptions |-> params.extraOptions,
     composeMsg |-> "0x",
     oftCmd |-> "0x"]

\* The handler up to the await of contract.quoteSend.
Bridge ==
    /\ tool = "bridge"
    /\ pc = "Bridge"
    /\ \E file \in OftFileStates :
         /\ oftFile' = file
         /\ LET amountBigInt == parseUnits(params.amount, amountDecimals)
                formattedReceiverAddress ==
                    formatAddressForLayerZero(params.receiverAddress)
            IN  IF \/ ~ArtifactLoaded(file)
                   \/ ArtifactRejected(file)
                   \/ SameChain(params.fromChain, params.toChain)
                   \/ ~getSigner(params.fromChain).ok
                   \/ ~amountBigInt.ok
                   \/ ~formattedReceiverAddress.ok
                THEN /\ ReturnError
                     /\ UNCHANGED <<txs, sendParam>>
                ELSE /\ sendParam' = SendParamOf(amountBigInt.value,
                                        formattedReceiverAddress.value)
                     /\ txs' = Append(txs, Tx("quoteSend", params.fromChain,
                                "pending",
                                [contract |-> params.tokenAddress,
                                 sendParam |-> sendParam',
                                 payInLzToken |-> FALSE]))
                     /\ pc' = "QuoteSend"
                     /\ response' = response
    /\ UNCHANGED <<environment, factoryFile, i, peerIndex, optIndex, results,
                   deployedContractsSummary, deployedContractsData,
                   peeringResults, enforcedOptionsResults, overallStatus,
                   chainState, nativeFee>>

\* The fees a quote may return.
QuotedFees == {1, 2}

\* The return of contract.quoteSend, and the handler up to the await of
\* contract.send.
QuoteSend ==
    /\ tool = "bridge"
    /\ pc = "QuoteSend"
    /\ \/ \E fee \in QuotedFees, sent \in BOOLEAN :
            /\ nativeFee' = fee
            /\ txs' = Append(SetLast(txs, "status", "returned"),
                        Tx("send", params.fromChain,
                           IF sent THEN "pending" ELSE "failed",
                           [contract |-> params.tokenAddress,
                            sendParam |-> sendParam,
                            messagingFee |-> messagingFee(fee),
                            refundAddress |-> signerAddress,
                            value |-> fee]))
            /\ IF sent THEN pc' = "SendWait" /\ response' = response
               ELSE ReturnError
       \/ /\ txs' = SetLast(txs, "status", "failed")
          /\ ReturnError
          /\ nativeFee' = nativeFee
    /\ UNCHANGED <<environment, oftFile, factoryFile, i, peerIndex, optIndex,
                   results, deployedContractsSummary, deployedContractsData,
                   peeringResults, enforcedOptionsResults, overallStatus,
                   chainState, sendParam>>

\* await tx.wait() of the send, and the receipt.
SendWait ==
    /\ tool = "bridge"
    /\ pc = "SendWait"
    /\ \E mined \in BOOLEAN :
         IF mined
         THEN /\ txs' = SetLast(txs, "status", "confirmed")
              /\ response' = "success"
              /\ pc' = "done"
         ELSE /\ txs' = SetLast(txs, "status", "failed")
              /\ ReturnError
    /\ UNCHANGED <<environment, oftFile, factoryFile, i, peerIndex, optIndex,
                   results, deployedContractsSummary, deployedContractsData,
                   peeringResults, enforcedOptionsResults, overallStatus,
                   chainState, bridgeLocals>>

InitDeploy ==
    /\ tool = "deploy"
    /\ params \in DeployRequests
    /\ FACTORY_ADDRESSES \in FactoryAddressMaps
    /\ pc = "PhaseA"
    /\ InitCommon

InitBridge ==
    /\ tool = "bridge"
    /\ params \in BridgeRequests
    /\ FACTORY_ADDRESSES = [c \in Networks |-> FactoryAddress]
    /\ pc = "Bridge"
    /\ InitCommon

Init == InitDeploy \/ InitBridge

(***************************************************************************)
(* Two invocations.  The server answers a request while another is         *)
(* waiting at an await: the handlers run in turns, one stretch of code     *)
(* between two awaits at a time.  The variables above are the locals of    *)
(* the invocation whose code runs; suspended keeps those of the other.     *)
(***************************************************************************)
MaxConcurrentTargets == 2

ConcurrentNetworks == 1..2

\* A request for one chain with a name and a symbol of ColonPairs.
ColonRequest(pair) ==
    [tokenName |-> pair[1], tokenSymbol |-> pair[2],
     initialTotalSupply |-> <<"1", "0">>, decimals |-> 18,
     targetChains |-> <<1>>, owner |-> NoOwner]

FirstRequests ==
    [tokenName : {GMA}, tokenSymbol : {GMA},
     initialTotalSupply : {<<"1", "0">>}, decimals : {18},
     targetChains : SeqsUpTo(ConcurrentNetworks, MaxConcurrentTargets),
     owner : {NoOwner}]
        \cup {ColonRequest(<<<<"G", ":">>, <<"A">>>>)}

\* The second request: one like the first, or with another symbol, another
\* supply, other decimals or another owner, for any target chains; or one
\* with a name and a symbol of ColonPairs.
SecondRequests ==
    {ColonRequest(pair) : pair \in ColonPairs} \cup
    {r \in [tokenName : {GMA}, tokenSymbol : TokenTexts,
            initialTotalSupply : ConcurrentSupplies,
            decimals : DecimalsSamples,
            targetChains : SeqsUpTo(ConcurrentNetworks, MaxConcurrentTargets),
            owner : {NoOwner, [given |-> TRUE, value |-> Address(2)]}] :
        Cardinality({f \in {"tokenSymbol", "initialTotalSupply", "decimals",
                            "owner"} :
                        \A q \in FirstRequests : r[f] # q[f]}) <= 1}

\* The locals of the running invocation.
Running ==
    [tool |-> tool, params |-> params, pc |-> pc, i |-> i,
     peerIndex |-> peerIndex, optIndex |-> optIndex, results |-> results,
     deployedContractsSummary |-> deployedContractsSummary,
     deployedContractsData |-> deployedContractsData,
     peeringResults |-> peeringResults,
     enforcedOptionsResults |-> enforcedOptionsResults,
     response |-> response, overallStatus |-> overallStatus, txs |-> txs,
     sendParam |-> sendParam, nativeFee |-> nativeFee]

\* A second request arrives; its handler starts.
Invoke ==
    /\ suspended.pc = "none"
    /\ suspended' = Running
    /\ sequential' = (pc = "done")
    /\ tool' = "deploy"
    /\ params' \in SecondRequests
    /\ pc' = "PhaseA"
    /\ i' = 0 /\ peerIndex' = 0 /\ optIndex' = 0
    /\ results' = <<>>
    /\ deployedContractsSummary' = <<>>
    /\ deployedContractsData' = <<>>
    /\ peeringResults' = <<>>
    /\ enforcedOptionsResults' = <<>>
    /\ response' = "none"
    /\ overallStatus' = ""
    /\ txs' = <<>>
    /\ sendParam' = NoSendParam
    /\ nativeFee' = 0
    /\ UNCHANGED <<PRIVATE_KEY, FACTORY_ADDRESSES, oftFile, factoryFile,
                   chainState>>

\* The running invocation waits at an await (or has returned) and the other
\* one goes on.
Resume ==
    /\ suspended.pc \notin {"none", "done"}
    /\ suspended' = Running
    /\ tool' = suspended.tool
    /\ params' = suspended.params
    /\ pc' = suspended.pc
    /\ i' = suspended.i
    /\ peerIndex' = suspended.peerIndex
    /\ optIndex' = suspended.optIndex
    /\ results' = suspended.results
    /\ deployedContractsSummary' = suspended.deployedContractsSummary
    /\ deployedContractsData' = suspended.deployedContractsData
    /\ peeringResults' = suspended.peeringResults
    /\ enforcedOptionsResults' = suspended.enforcedOptionsResults
    /\ response' = suspended.response
    /\ overallStatus' = suspended.overallStatus
    /\ txs' = suspended.txs
    /\ sendParam' = suspended.sendParam
    /\ nativeFee' = suspended.nativeFee
    /\ UNCHANGED <<PRIVATE_KEY, FACTORY_ADDRESSES, oftFile, factoryFile,
                   chainState, sequential>>

InitConcurrent ==
    /\ tool = "deploy"
    /\ params \in FirstRequests
    /\ FACTORY_ADDRESSES = [c \in Networks |-> FactoryAddress]
    /\ pc = "PhaseA"
    /\ InitCommon
    /\ PRIVATE_KEY = "valid"

NextConcurrent ==
    \/ PhaseA
    \/ Deploy
    \/ DeployWait
    \/ DeployRead
    \/ PhaseC
    \/ SetPeer
    \/ SetPeerWait
    \/ PhaseD
    \/ SetEnforcedOptions
    \/ SetEnforcedOptionsWait
    \/ PhaseE
    \/ Invoke
    \/ Resume

SpecConcurrent == InitConcurrent /\ [][NextConcurrent]_vars

Next ==
    \/ PhaseA
    \/ Deploy
    \/ DeployWait
    \/ DeployRead
    \/ PhaseC
    \/ SetPeer
    \/ SetPeerWait
    \/ PhaseD
    \/ SetEnforcedOptions
    \/ SetEnforcedOptionsWait
    \/ PhaseE
    \/ Bridge
    \/ QuoteSend
    \/ SendWait

Spec == Init /\ [][Next]_vars


(***************************************************************************)
(* The properties.                                                         *)
(***************************************************************************)
Done == pc = "done"

TxsOf(op) == {k \in 1..Len(txs) : txs[k].op = op}

targetChains == params.targetChains

SuccessEntries ==
    {k \in 1..Len(deployedContractsSummary) :
        deployedContractsSummary[k].deploymentStatus = "Success"}

\* The deployment on the K-th target chain failed: the handler ended in
\* iteration K of the deployment loop.
DeploymentFailedAt(K) ==
    /\ tool = "deploy" /\ Done
    /\ i = K
    /\ Len(deployedContractsData) = K - 1

\* C1 (the claim): when the deployment on the K-th target chain fails and K
\* is not the last, no deployment is attempted on a later chain, no setPeer
\* and no setEnforcedOptions call is issued, and the invocation returns an
\* error result.
C1_DeployFailureAborts ==
    \A K \in 1..MaxTargets :
        (DeploymentFailedAt(K) /\ K < Len(targetChains)) =>
            /\ Cardinality(TxsOf("deploy")) <= K
            /\ TxsOf("setPeer") = {}
            /\ TxsOf("setEnforcedOptions") = {}
            /\ response = "error"

\* C1, the part that holds: a failed deployment is the last chain
\* interaction but for the deployments before it.
C1_NoCallAfterFailure ==
    \A K \in 1..MaxTargets :
        DeploymentFailedAt(K) =>
            /\ Cardinality(TxsOf("deploy")) <= K
            /\ TxsOf("setPeer") = {}
            /\ TxsOf("setEnforcedOptions") = {}
            /\ response \in {"error", "threw"}

Distinct(q) == \A m, n \in 1..Len(q) : m # n => q[m] # q[n]

\* C2: a request with N >= 2 distinct target chains whose every chain
\* interaction succeeded has attempted exactly N * (N - 1) setPeer calls,
\* one for every ordered pair of distinct chains, and exactly one
\* setEnforcedOptions call per chain, each carrying N - 1 entries.
C2_AllPairsPeered ==
    (/\ tool = "deploy" /\ Done /\ response = "success"
     /\ Len(targetChains) >= 2 /\ Distinct(targetChains)) =>
        LET N == Len(targetChains)
        IN  /\ Cardinality(TxsOf("setPeer")) = N * (N - 1)
            /\ \A m, n \in 1..N :
                 m # n =>
                   Cardinality({k \in TxsOf("setPeer") :
                        /\ txs[k].chain = targetChains[m]
                        /\ txs[k].args.eid = NETWORKS[targetChains[n]].lzEid}) = 1
            /\ Cardinality(TxsOf("setEnforcedOptions")) = N
            /\ \A m \in 1..N :
                 /\ Cardinality({k \in TxsOf("setEnforcedOptions") :
                        txs[k].chain = targetChains[m]}) = 1
                 /\ \A k \in TxsOf("setEnforcedOptions") :
                        Len(txs[k].args.options) = N - 1

C2_Witness ==
    /\ tool = "deploy" /\ Done /\ response = "success"
    /\ Len(targetChains) = 3
    /\ Cardinality(TxsOf("setPeer")) = 6

NoPeersMsg == Line("{logPrefix} No peers to set enforced options for.", <<>>)

\* What the claim C3 promises of the invocation.
PeeringSkippedOutcome ==
    /\ TxsOf("setPeer") = {}
    /\ peeringResults = <<SkipPeeringMsg>>
    /\ \E k \in 1..Len(results) : results[k] = SkipPeeringMsg
    /\ TxsOf("setEnforcedOptions") = {}
    /\ enforcedOptionsResults = <<NoPeersMsg>>
    /\ response = "success"

\* C3 (the claim as stated): an invocation that ends with exactly one
\* successfully deployed chain has skipped the peering phase with a skip
\* notice, has attempted the enforced options with an empty peer list (a
\* no-op outcome) and returns a success report.
C3_Original ==
    (tool = "deploy" /\ Done /\ Cardinality(SuccessEntries) = 1) =>
        PeeringSkippedOutcome

\* C3 (amended): an invocation whose deployment phase completed with exactly
\* one deployed contract, that of its single target chain, has skipped the
\* peering phase with a skip notice, has attempted the enforced options with
\* an empty peer list (a no-op outcome) and returns a success report.
C3_SingleChainSkipsPeering ==
    (/\ tool = "deploy" /\ Done
     /\ Cardinality(SuccessEntries) = 1
     /\ Len(deployedContractsData) = Len(targetChains)) =>
        PeeringSkippedOutcome

C3_Witness ==
    /\ tool = "deploy" /\ Done
    /\ Len(targetChains) = 1
    /\ Len(deployedContractsData) = 1
    /\ response = "success"

\* C4 (the claim): every failure inside an invocation ends it with a
\* structured error payload; no failure escapes the handler as an exception.
C4_NoUncaughtException == Done => response \in {"success", "error"}

\* C5 (the claim): when every deployment, peering call and enforced-options
\* call succeeded, the report has exactly one Success entry per target chain
\* and its overallStatus is the full-success status.
C5_FullSuccessStatus ==
    (tool = "deploy" /\ Done /\ response = "success") =>
        /\ Len(deployedContractsSummary) = Len(targetChains)
        /\ \A k \in 1..Len(targetChains) :
             /\ deployedContractsSummary[k].chainName = targetChains[k]
             /\ deployedContractsSummary[k].deploymentStatus = "Success"
        /\ overallStatus = StatusSuccess

\* C5, the part that holds: the status is the full-success status unless a
\* text of the request that the log embeds holds the word FAILURE.
C5_SuccessUnlessTextHasFAILURE ==
    (/\ tool = "deploy" /\ Done /\ response = "success"
     /\ ~Includes(params.tokenName, FAILURE)
     /\ ~Includes(params.tokenSymbol, FAILURE)) =>
        overallStatus = StatusSuccess

\* C6: no setPeer call is issued before the deployment on every target chain
\* has confirmed, and no setEnforcedOptions call is issued before every
\* setPeer call of the peering phase has confirmed or the phase was skipped.
C6_PhasesOrdered ==
    /\ \A k \in TxsOf("setPeer") :
         \A t \in 1..Len(targetChains) :
            \E m \in 1..(k - 1) :
                /\ txs[m].op = "deploy"
                /\ txs[m].chain = targetChains[t]
                /\ txs[m].status = "confirmed"
    /\ \A k \in TxsOf("setEnforcedOptions") :
         /\ \A t \in 1..Len(targetChains) :
              \E m \in 1..(k - 1) :
                  /\ txs[m].op = "deploy"
                  /\ txs[m].chain = targetChains[t]
                  /\ txs[m].status = "confirmed"
         /\ \A m \in TxsOf("setPeer") : m < k /\ txs[m].status = "confirmed"
         /\ \/ peeringResults = <<SkipPeeringMsg>>
            \/ Cardinality(TxsOf("setPeer")) =
                 Len(targetChains) * (Len(targetChains) - 1)

C6_Witness ==
    /\ TxsOf("setPeer") # {}
    /\ TxsOf("setEnforcedOptions") # {}

\* The effect on chain of every confirmed transaction is there.
ConfirmedEffectsStand ==
    \A k \in 1..Len(txs) :
        txs[k].status = "confirmed" =>
            CASE txs[k].op = "deploy" ->
                    <<txs[k].chain,
                      Create2Address(txs[k].args.factory, txs[k].args.salt,
                                     txs[k].args.bytecode)>>
                        \in contracts
              [] txs[k].op = "setPeer" ->
                    <<txs[k].chain, txs[k].args>> \in peersOnChain
              [] txs[k].op = "setEnforcedOptions" ->
                    <<txs[k].chain, txs[k].args>> \in optionsOnChain
              [] OTHER -> TRUE

\* C7: a failed setPeer call is the last chain interaction of the invocation
\* and ends it with an error result; so is a failed setEnforcedOptions call;
\* the transactions confirmed before stay in effect.
C7_ConfigFailureAborts ==
    /\ \A k \in TxsOf("setPeer") \cup TxsOf("setEnforcedOptions") :
         txs[k].status = "failed" =>
            /\ k = Len(txs)
            /\ Done
            /\ response = "error"
    /\ ConfirmedEffectsStand

C7_Witness ==
    /\ \E k \in TxsOf("setPeer") : txs[k].status = "failed"
    /\ \E k \in TxsOf("setPeer") : txs[k].status = "confirmed"
    /\ Done

\* What the validation of a request rejects.
RejectedByValidation ==
    \/ /\ tool = "deploy"
       /\ \/ oftFile \in {"unreadable", "malformed", "placeholder"}
          \/ factoryFile = "unreadable"
          \/ Len(targetChains) = 0
    \/ /\ tool = "bridge"
       /\ \/ oftFile \in {"unreadable", "malformed", "placeholder"}
          \/ params.fromChain = params.toChain

\* C8: a request rejected by validation (placeholder or missing contract
\* artifact, missing factory artifact, empty targetChains, fromChain equal to
\* toChain) has issued no transaction and no RPC call on any chain.
C8_ValidationBeforeChain ==
    RejectedByValidation => (txs = <<>> /\ contracts = {})

C8_Witness ==
    /\ tool = "deploy" /\ Done
    /\ oftFile = "ok" /\ factoryFile = "unreadable"
    /\ Len(targetChains) = 2
    /\ response = "error"

\* C9: bridge-oft with fromChain equal to toChain returns an error result
\* and issues no quoteSend call, no send transaction and no other call.
C9_SameChainRejected ==
    (tool = "bridge" /\ params.fromChain = params.toChain) =>
        /\ txs = <<>>
        /\ Done => response = "error"

C9_Witness ==
    /\ tool = "bridge" /\ Done
    /\ oftFile = "ok"
    /\ params.fromChain = params.toChain
    /\ parseUnits(params.amount, amountDecimals).ok
    /\ params.receiverAddress = Address(3)

\* The number a string of digits writes.
RECURSIVE NatValue(_)
NatValue(s) ==
    IF Len(s) = 0 THEN 0
    ELSE 10 * NatValue(SubSeq(s, 1, Len(s) - 1)) + DigitValue(s[Len(s)])

\* big = n * 10^k, for a string n of digits.
IsTimesPowerOfTen(big, n, k) ==
    /\ ~big.neg
    /\ IF NatValue(n) = 0 THEN big.digits = <<"0">>
       ELSE /\ Len(big.digits) > k
            /\ big.digits[1] # "0"
            /\ AllZeros(SubSeq(big.digits, Len(big.digits) - k + 1,
                               Len(big.digits)))
            /\ NatValue(SubSeq(big.digits, 1, Len(big.digits) - k))
                 = NatValue(n)

\* C10: for a whole-number amount string n, the send parameters of the fee
\* quote and of the send transaction carry amountLD = minAmountLD =
\* n * 10^18, and the send transaction carries the send parameters quoted.
C10_AmountScaled ==
    (/\ tool = "bridge"
     /\ Len(params.amount) > 0 /\ AllDigits(params.amount)) =>
        \A k \in 1..Len(txs) :
            /\ txs[k].args.sendParam.amountLD = txs[k].args.sendParam.minAmountLD
            /\ IsTimesPowerOfTen(txs[k].args.sendParam.amountLD,
                                 params.amount, 18)
            /\ txs[k].op = "send" =>
                 /\ k > 1 /\ txs[k - 1].op = "quoteSend"
                 /\ txs[k].args.sendParam = txs[k - 1].args.sendParam

C10_Witness ==
    /\ tool = "bridge"
    /\ params.amount = <<"5", "0">>
    /\ \E k \in 1..Len(txs) : txs[k].op = "send" /\ txs[k].status = "confirmed"

\* C11: in bridge-oft the send transaction is issued right after the fee
\* quote has returned, with the quoted native fee as its native fee, 0 as
\* its LZ-token fee, the signer's address as refund address and the quoted
\* native fee as transaction value.
C11_SendAfterQuote ==
    tool = "bridge" =>
        /\ \A k \in TxsOf("send") :
             /\ k > 1
             /\ txs[k - 1].op = "quoteSend"
             /\ txs[k - 1].status = "returned"
             /\ nativeFee \in QuotedFees
             /\ txs[k].args.messagingFee.nativeFee = nativeFee
             /\ txs[k].args.messagingFee.lzTokenFee = 0
             /\ txs[k].args.refundAddress = Address(5)
             /\ txs[k].args.value = nativeFee
        /\ \A k \in TxsOf("quoteSend") :
             txs[k].status # "returned" => TxsOf("send") = {}

C11_Witness ==
    /\ tool = "bridge" /\ Done /\ response = "success"
    /\ nativeFee = 2
    /\ \E k \in TxsOf("send") : txs[k].status = "confirmed"

\* C12: a bridge-oft invocation issues at most one quoteSend call and at
\* most one send transaction; a failed call is its last chain interaction,
\* and every failure (signer, amount, receiver, quote, send, confirmation)
\* ends it with an error result.
C12_BridgeFailsOnce ==
    tool = "bridge" =>
        /\ Cardinality(TxsOf("quoteSend")) <= 1
        /\ Cardinality(TxsOf("send")) <= 1
        /\ \A k \in 1..Len(txs) :
             txs[k].status = "failed" =>
                /\ k = Len(txs)
                /\ Done
                /\ response = "error"
        /\ Done => response \in {"success", "error"}
        /\ (Done /\ response = "success") =>
              \E k \in TxsOf("send") : txs[k].status = "confirmed"

C12_Witness ==
    /\ tool = "bridge" /\ Done /\ response = "error"
    /\ \E k \in TxsOf("send") : txs[k].status = "failed"

(***************************************************************************)
(* Properties of two invocations.                                          *)
(***************************************************************************)
\* The summary has a Success entry for the chain c.
SuccessOn(summary, c) ==
    \E k \in 1..Len(summary) :
        summary[k].chainName = c /\ summary[k].deploymentStatus = "Success"

\* Two deploy invocations, the second one issued while the first one ran.
TwoConcurrentDeploys ==
    /\ suspended.pc # "none"
    /\ ~sequential
    /\ tool = "deploy" /\ suspended.tool = "deploy"

SameNameAndSymbol ==
    /\ params.tokenName = suspended.params.tokenName
    /\ params.tokenSymbol = suspended.params.tokenSymbol

\* The one of two invocations that has a failed deployment on the chain c
\* has ended with an error result, that deployment being its last call.
LoserAborted(c) ==
    /\ \A k \in TxsOf("deploy") :
         (txs[k].chain = c /\ txs[k].status = "failed") =>
            (k = Len(txs) /\ Done /\ response = "error")
    /\ \A k \in 1..Len(suspended.txs) :
         (/\ suspended.txs[k].op = "deploy"
          /\ suspended.txs[k].chain = c
          /\ suspended.txs[k].status = "failed") =>
            /\ k = Len(suspended.txs)
            /\ suspended.pc = "done"
            /\ suspended.response = "error"

\* C13 (the claim): of two concurrent deploy invocations with the same
\* token name and symbol that deploy to the same chain, through the factory
\* of that chain, at most one records a Success for that chain, and the one
\* whose deployment failed has aborted.
C13_OneWinnerPerNameAndSymbol ==
    (TwoConcurrentDeploys /\ SameNameAndSymbol) =>
        \A c \in Networks :
            /\ ~(/\ SuccessOn(deployedContractsSummary, c)
                 /\ SuccessOn(suspended.deployedContractsSummary, c))
            /\ LoserAborted(c)

\* C13, the part that holds: when the two requests also have the same
\* supply and the same owner, hence the same init code on a chain, at most
\* one of them has a confirmed deployment on that chain and records a
\* Success for it, and the one whose deployment failed has aborted.
C13_OneWinnerPerInitCode ==
    (/\ TwoConcurrentDeploys /\ SameNameAndSymbol
     /\ params.initialTotalSupply = suspended.params.initialTotalSupply
     /\ params.owner = suspended.params.owner) =>
        \A c \in Networks :
            /\ ~(/\ SuccessOn(deployedContractsSummary, c)
                 /\ SuccessOn(suspended.deployedContractsSummary, c))
            /\ ~(/\ \E k \in TxsOf("deploy") :
                        txs[k].chain = c /\ txs[k].status = "confirmed"
                 /\ \E k \in 1..Len(suspended.txs) :
                        /\ suspended.txs[k].op = "deploy"
                        /\ suspended.txs[k].chain = c
                        /\ suspended.txs[k].status = "confirmed")
            /\ LoserAborted(c)

\* Both invocations sent a deployment to the same chain while the other's
\* was not yet confirmed; one was confirmed and the other one failed.
C13_RaceLost ==
    /\ TwoConcurrentDeploys /\ SameNameAndSymbol
    /\ params.initialTotalSupply = suspended.params.initialTotalSupply
    /\ Done /\ response = "error"
    /\ Len(txs) = 1 /\ txs[1].status = "failed"
    /\ SuccessOn(suspended.deployedContractsSummary, txs[1].chain)

\* The first request aborted at the deployment on its K-th target chain,
\* and the running invocation is the same request, issued again afterwards.
RetryAfterAbortAt(K) ==
    /\ sequential
    /\ tool = "deploy" /\ suspended.tool = "deploy"
    /\ suspended.pc = "done"
    /\ suspended.i = K
    /\ Len(suspended.deployedContractsData) = K - 1
    /\ params = suspended.params

\* C14: after a deploy request aborted at its K-th target chain, K > 1,
\* the contracts it deployed on the chains before are still on chain and it
\* has sent nothing but deployments; the identical request issued again
\* sends at most one deployment, to its first target chain, which fails,
\* records no deployed contract and ends with an error result.
C14_RetryCollides ==
    \A K \in 2..MaxConcurrentTargets :
        RetryAfterAbortAt(K) =>
            /\ \A k \in 1..Len(suspended.txs) :
                 /\ suspended.txs[k].op \in {"deploy", "lastDeployedAddress"}
                 /\ (/\ suspended.txs[k].op = "deploy"
                     /\ suspended.txs[k].status = "confirmed") =>
                        <<suspended.txs[k].chain,
                          Create2Address(suspended.txs[k].args.factory,
                                         suspended.txs[k].args.salt,
                                         suspended.txs[k].args.bytecode)>>
                            \in contracts
            /\ \A m \in 1..(K - 1) :
                 \E k \in 1..Len(suspended.txs) :
                    /\ suspended.txs[k].op = "deploy"
                    /\ suspended.txs[k].chain = targetChains[m]
                    /\ suspended.txs[k].status = "confirmed"
            /\ Len(txs) <= 1
            /\ \A k \in 1..Len(txs) :
                 /\ txs[k].op = "deploy"
                 /\ txs[k].chain = targetChains[1]
                 /\ txs[k].status # "confirmed"
            /\ deployedContractsData = <<>>
            /\ Done => response = "error"

C14_Witness ==
    /\ RetryAfterAbortAt(2)
    /\ Done
    /\ Len(txs) = 1 /\ txs[1].status = "failed"
    /\ response = "error"

\* The init code the request hands to the factory of the chain c.
InitCodeOn(c) ==
    SolidityPacked("OFT_BYTECODE",
                   EncodeDeploy(params.tokenName, params.tokenSymbol,
                                parsedSupply.value, NETWORKS[c].lzEndpoint,
                                deployOwner))

\* The report gives the same contract address for every two target chains
\* that have the same factory address and the same init code, and every
\* deployment was sent with the same salt.
SameAddressOnEveryChain ==
    /\ \A a, b \in 1..Len(deployedContractsSummary) :
         LET A == deployedContractsSummary[a]
             B == deployedContractsSummary[b]
         IN  (/\ FACTORY_ADDRESSES[A.chainName] = FACTORY_ADDRESSES[B.chainName]
              /\ InitCodeOn(A.chainName) = InitCodeOn(B.chainName)) =>
                A.contractAddress = B.contractAddress
    /\ \A k, m \in TxsOf("deploy") : txs[k].args.salt = txs[m].args.salt

\* C15 (the claim): in a deploy request where every deployment succeeded,
\* the contract address reported is the same on every target chain with the
\* same factory address and the same init code, and the salt passed to the
\* factory is the same on every chain.
C15_SameAddressOnEveryChain ==
    (/\ tool = "deploy" /\ Done /\ response = "success"
     /\ Len(deployedContractsSummary) = Len(targetChains)) =>
        SameAddressOnEveryChain

\* C15, the part that holds: it is so when no other invocation ran between
\* the start and the end of the request.
C15_SameAddressWhenAlone ==
    (/\ tool = "deploy" /\ Done /\ response = "success"
     /\ Len(deployedContractsSummary) = Len(targetChains)
     /\ (suspended.pc = "none" \/ sequential)) =>
        SameAddressOnEveryChain

C15_WitnessAlone ==
    /\ tool = "deploy" /\ Done /\ response = "success"
    /\ suspended.pc = "none"
    /\ Len(targetChains) = 2 /\ Distinct(targetChains)
    /\ deployedContractsSummary[1].contractAddress =
         deployedContractsSummary[2].contractAddress

\* The deployments sent by the running invocation and by the other one.
DeployTxsOfBoth ==
    {txs[k] : k \in TxsOf("deploy")}
        \cup {suspended.txs[k] :
                k \in {m \in 1..Len(suspended.txs) :
                          suspended.txs[m].op = "deploy"}}

SupplyArg(tx) == tx.args.bytecode.args[3]

C18_SupplyScaledByDecimals ==
    (tool = "deploy" /\ AllDigits(params.initialTotalSupply)) =>
        \A k \in TxsOf("deploy") :
            IsTimesPowerOfTen(SupplyArg(txs[k]), params.initialTotalSupply,
                              params.decimals)

\* padded is 32 bytes: 12 zero bytes, then the 20 bytes of the address.
IsPeerFormatOf(padded, address) ==
    /\ padded.hex
    /\ Len(padded.bytes) = 32
    /\ \A k \in 1..12 : padded.bytes[k] = 0
    /\ \A k \in 1..20 : padded.bytes[12 + k] = address.bytes[k]

\* C19: formatAddressForLayerZero of a 20-byte address is 32 bytes, the
\* first 12 of them zero and the last 20 the address: so are the receiver
\* of the send parameters of bridge-oft and the peer of every setPeer call.
C19_PeerFormat ==
    /\ (tool = "bridge" /\ IsAddress(params.receiverAddress)) =>
          /\ formatAddressForLayerZero(params.receiverAddress).ok
          /\ \A k \in 1..Len(txs) :
               IsPeerFormatOf(txs[k].args.sendParam.to, params.receiverAddress)
    /\ tool = "deploy" =>
          \A k \in TxsOf("setPeer") :
             \E d \in 1..Len(deployedContractsData) :
                /\ IsAddress(deployedContractsData[d].address)
                /\ deployedContractsData[d].lzEid = txs[k].args.eid
                /\ IsPeerFormatOf(txs[k].args.peer,
                                  deployedContractsData[d].address)

C19_Witness ==
    /\ tool = "bridge"
    /\ IsAddress(params.receiverAddress)
    /\ params.receiverAddress.bytes[1] = 0
    /\ \E k \in TxsOf("send") : txs[k].status = "confirmed"

\* C20 (the claim): formatAddressForLayerZero fails for every input that is
\* not a 20-byte address and returns no padded value for it: a bridge-oft
\* request whose receiver is no 20-byte address ends with an error result
\* and no call carries a receiver made of it.
C20_MalformedAddressRejected ==
    (tool = "bridge" /\ ~IsAddress(params.receiverAddress)) =>
        /\ txs = <<>>
        /\ Done => response = "error"

\* C20, the part that holds: the function fails for a string that is not
\* hex data and for hex data longer than 32 bytes.
C20_TooLongOrNotHexRejected ==
    (/\ tool = "bridge"
     /\ \/ ~params.receiverAddress.hex
        \/ Len(params.receiverAddress.bytes) > 32) =>
        /\ ~formatAddressForLayerZero(params.receiverAddress).ok
        /\ txs = <<>>
        /\ Done => response = "error"

(***************************************************************************)
(* Termination and the order of the chain calls.                           *)
(***************************************************************************)
\* Every call the handler awaits resolves or fails, and the event loop runs
\* the continuation: a step of the handler that can be taken is taken.
SpecLive == Spec /\ WF_vars(Next)

\* C21 (the claim): an invocation has no response while it runs and has one
\* response when it has ended, a success payload or an error payload.
C21_OneResponse ==
    /\ ~Done => response = "none"
    /\ Done => response \in {"success", "error"}

\* C21, the parts that hold: the handler ends, whatever the calls it awaits
\* give; once it has ended its response, its log and its calls stay as they
\* are.
C21_Terminates == <>Done

C21_NoCallAfterResponse ==
    [][Done => (Done' /\ UNCHANGED <<response, txs, chainState>>)]_vars

(***************************************************************************)
(* The peers set by an invocation.                                         *)
(***************************************************************************)
\* The address of the contract a deployment creates.
CreatedBy(tx) ==
    Create2Address(tx.args.factory, tx.args.salt, tx.args.bytecode)

\* The confirmed deployments of the running invocation.
OwnDeployments == {k \in TxsOf("deploy") : txs[k].status = "confirmed"}

\* The setPeer call k is made on a contract the invocation deployed, for
\* another contract it deployed, on another chain.
PeersOwnContracts(k) ==
    \E a, b \in OwnDeployments :
        /\ txs[a].chain # txs[b].chain
        /\ txs[k].chain = txs[a].chain
        /\ txs[k].args.contract = CreatedBy(txs[a])
        /\ txs[k].args.eid = NETWORKS[txs[b].chain].lzEid
        /\ txs[k].args.eid # NETWORKS[txs[k].chain].lzEid
        /\ IsPeerFormatOf(txs[k].args.peer, CreatedBy(txs[b]))

\* After a success report every ordered pair of distinct chains with a
\* deployed contract has one setPeer call, a confirmed one.
EveryPairPeeredOnce ==
    \A a, b \in OwnDeployments :
        txs[a].chain # txs[b].chain =>
            /\ Cardinality({k \in TxsOf("setPeer") :
                    /\ txs[k].chain = txs[a].chain
                    /\ txs[k].args.eid = NETWORKS[txs[b].chain].lzEid}) = 1
            /\ \A k \in TxsOf("setPeer") : txs[k].status = "confirmed"

\* C22 (the claim): every setPeer call of a deploy invocation is made on a
\* contract A deployed by that invocation, with the EID and the 32-byte
\* padded address of another contract B deployed by it, never A itself; and
\* after a success report every ordered pair of distinct deployed chains has
\* been peered exactly once.
C22_PeersOwnContracts ==
    tool = "deploy" =>
        /\ \A k \in TxsOf("setPeer") : PeersOwnContracts(k)
        /\ (Done /\ response = "success") => EveryPairPeeredOnce

\* C22, the part that holds: it is so when no other invocation deployed
\* while the request ran.
C22_PeersOwnContractsWhenAlone ==
    (tool = "deploy" /\ (suspended.pc = "none" \/ sequential)) =>
        /\ \A k \in TxsOf("setPeer") : PeersOwnContracts(k)
        /\ (Done /\ response = "success") => EveryPairPeeredOnce

C22_WitnessAlone ==
    /\ tool = "deploy" /\ Done /\ response = "success"
    /\ suspended.pc = "none"
    /\ Cardinality(OwnDeployments) = 2
    /\ Cardinality(TxsOf("setPeer")) = 2

\* The transactions of the running invocation that are sent and have no
\* outcome yet.
InFlight == {k \in 1..Len(txs) : txs[k].status = "pending"}

Transactions == {"deploy", "setPeer", "setEnforcedOptions", "send"}

\* C23: an invocation has at most one transaction sent and not yet
\* confirmed, its last one; a transaction (deploy, setPeer,
\* setEnforcedOptions, send) after which another call was issued has been
\* confirmed before.
C23_OneTxInFlight ==
    /\ Cardinality(InFlight) <= 1
    /\ \A k \in InFlight : k = Len(txs)
    /\ \A k \in 1..Len(txs) :
         (k < Len(txs) /\ txs[k].op \in Transactions) =>
            txs[k].status = "confirmed"

C23_Witness ==
    /\ tool = "deploy"
    /\ Len(txs) >= 6
    /\ txs[Len(txs)].op = "setEnforcedOptions"
    /\ txs[Len(txs)].status = "pending"
    /\ \E k \in TxsOf("setPeer") : txs[k].status = "confirmed"

C23_WitnessSend ==
    /\ tool = "bridge"
    /\ InFlight = {Len(txs)}
    /\ txs[Len(txs)].op = "send"

\* Every address the running invocation recorded for a chain is the address
\* of the contract its own confirmed deployment on that chain created.
RecordsOwnAddresses ==
    \A d \in 1..Len(deployedContractsData) :
        \E k \in OwnDeployments :
            /\ txs[k].chain = deployedContractsData[d].chainName
            /\ deployedContractsData[d].address = CreatedBy(txs[k])

\* C24 (the claim): when two deploy invocations for different tokens run
\* side by side through the same factory, the address each one records for
\* a successful deployment, the one it uses for peering, is the address its
\* own deployment created.
C24_RecordsOwnAddress ==
    (TwoConcurrentDeploys /\ ~SameNameAndSymbol) => RecordsOwnAddresses

\* C24, the part that holds: an invocation that runs alone, or after the
\* other has ended, records the addresses of its own contracts.
C24_RecordsOwnAddressWhenAlone ==
    (tool = "deploy" /\ (suspended.pc = "none" \/ sequential)) =>
        RecordsOwnAddresses

(***************************************************************************)
(* The report.                                                             *)
(***************************************************************************)
FailedEntries ==
    {k \in 1..Len(deployedContractsSummary) :
        deployedContractsSummary[k].deploymentStatus = "Failed"}

\* C25: a success report of deploy-and-configure lists the requested target
\* chains, all of them and in the order of the request, each with the status
\* Success and an address (not the null of a failed deployment); a summary with a Failed entry is
\* never returned in a report: the invocation has ended then, and not with a
\* success payload.
C25_ReportListsTargets ==
    tool = "deploy" =>
        /\ (Done /\ response = "success") =>
              /\ [k \in 1..Len(deployedContractsSummary) |->
                    deployedContractsSummary[k].chainName] = targetChains
              /\ FailedEntries = {}
              /\ \A k \in 1..Len(deployedContractsSummary) :
                    /\ deployedContractsSummary[k].deploymentStatus = "Success"
                    /\ IsAddress(deployedContractsSummary[k].contractAddress)
        /\ FailedEntries # {} =>
              /\ Done /\ response = "error"
              /\ FailedEntries = {Len(deployedContractsSummary)}

C25_Witness ==
    /\ tool = "deploy" /\ Done /\ response = "success"
    /\ Len(targetChains) = 3
    /\ targetChains[1] > targetChains[2]
    /\ Len(deployedContractsSummary) = 3

C25_WitnessFailed ==
    /\ tool = "deploy" /\ Done /\ response = "error"
    /\ Len(deployedContractsSummary) = 2
    /\ FailedEntries = {2}

(***************************************************************************)
(* The salt of two requests.                                               *)
(***************************************************************************)
\* Both invocations are deploy requests and their (name, symbol) pairs
\* differ.
TwoTokens ==
    /\ suspended.pc # "none"
    /\ tool = "deploy" /\ suspended.tool = "deploy"
    /\ ~SameNameAndSymbol

\* No deployment of the running invocation carries the salt of a deployment
\* of the other one.
SaltsDiffer ==
    \A k \in TxsOf("deploy") :
        \A m \in 1..Len(suspended.txs) :
            suspended.txs[m].op = "deploy" =>
                txs[k].args.salt # suspended.txs[m].args.salt

\* C26 (the claim): two deploy requests whose token name or token symbol
\* differ never pass the same salt to the factory.
C26_DistinctPairsDistinctSalts == TwoTokens => SaltsDiffer

\* C26, the part that holds: it is so when no token name holds the
\* character ":".
C26_DistinctSaltsWithoutColon ==
    (/\ TwoTokens
     /\ ~Includes(params.tokenName, <<":">>)
     /\ ~Includes(suspended.params.tokenName, <<":">>)) => SaltsDiffer

C26_WitnessWithoutColon ==
    /\ TwoTokens
    /\ ~Includes(params.tokenName, <<":">>)
    /\ ~Includes(suspended.params.tokenName, <<":">>)
    /\ \E k \in TxsOf("deploy") : txs[k].status = "confirmed"
    /\ \E m \in 1..Len(suspended.txs) :
         suspended.txs[m].op = "deploy" /\ suspended.txs[m].status = "confirmed"

=============================================================================
